---- MODULE Spec2Model ----
(***************************************************************************)
(* Model of dsa-recall: the spaced-repetition scheduler                    *)
(* (src/utils/spaced_repetition.py), the Problem entity                    *)
(* (src/database/models.py), the SQLite store                              *)
(* (src/database/db_manager.py) and the review workflows of the two user   *)
(* interfaces (src/ui, src/gui).                                           *)
(*                                                                         *)
(* Dates are proleptic Gregorian ordinals, as datetime.date keeps them     *)
(* (0001-01-01 is 1, date.max = 9999-12-31 is 3652059).  date.today() is   *)
(* the variable today; it changes only between operations.                 *)
(***************************************************************************)
EXTENDS Integers, Sequences, FiniteSets, TLC

VARIABLES today, problems, err, ret, last, steps,
          db, ledger, seq, created,
          proc, startDay, dueList, allList, card, cur, wf,
          confirm_delete, delete_problem_id

coordVars == <<problems, err, ret, last>>
storeVars == <<db, ledger, seq, created>>
uiVars == <<proc, startDay, dueList, allList, card, cur, wf,
           confirm_delete, delete_problem_id>>
appVars == <<db, ledger, seq, created,
             proc, startDay, dueList, allList, card, cur, wf,
             confirm_delete, delete_problem_id>>
vars == <<today, problems, err, ret, last, steps,
          db, ledger, seq, created,
          proc, startDay, dueList, allList, card, cur, wf,
          confirm_delete, delete_problem_id>>

(***************************************************************************)
(* Bounds of the model.                                                    *)
(***************************************************************************)
Today0 == 739923
MaxDays == 3
MaxSteps == 3
NumProblems == 2
PreRun == 20
MaxAge == 3
NumStored == 2
MaxAppSteps == 8
MaxStoreSteps == 2
MaxBack == 2
MaxCount == 2
MaxHistory == 2
MaxHistorySteps == 3
MaxAddSteps == 5
MaxBrowseSteps == 4
MaxGuiSteps == 4

(***************************************************************************)
(* Constants of the program and of the Python runtime it runs on.          *)
(***************************************************************************)
INITIAL_STREAK_LEVEL == 1
INITIAL_INTERVAL_DAYS == 1
STREAK_MULTIPLIER == 2
DateMax == 3652059
TimedeltaMaxDays == 999999999
None == 0

\* the counts passed to record_daily_review: an int, without a lower bound
Counts == (-1) .. MaxCount

(***************************************************************************)
(* datetime.date.isoformat(): the ordinal n as <<year, month, day>>, the   *)
(* content of the text "YYYY-MM-DD".                                       *)
(***************************************************************************)
DaysInMonth == <<31, 28, 31, 30, 31, 30, 31, 31, 30, 31, 30, 31>>
DaysBeforeMonth == <<0, 31, 59, 90, 120, 151, 181, 212, 243, 273, 304, 334>>

ord2ymd(n0) ==
    LET n    == n0 - 1
        n400 == n \div 146097
        r400 == n % 146097
        n100 == r400 \div 36524
        r100 == r400 % 36524
        n4   == r100 \div 1461
        r4   == r100 % 1461
        n1   == r4 \div 365
        r1   == r4 % 365
        year == n400 * 400 + 1 + n100 * 100 + n4 * 4 + n1
        leapyear == n1 = 3 /\ (n4 # 24 \/ n100 = 3)
        month0 == (r1 + 50) \div 32
        preceding0 == DaysBeforeMonth[month0]
                        + (IF month0 > 2 /\ leapyear THEN 1 ELSE 0)
        month == IF preceding0 > r1 THEN month0 - 1 ELSE month0
        preceding == IF preceding0 > r1
                     THEN preceding0 - (DaysInMonth[month]
                            + (IF month = 2 /\ leapyear THEN 1 ELSE 0))
                     ELSE preceding0
    IN  IF n1 = 4 \/ n100 = 4
        THEN <<year - 1, 12, 31>>
        ELSE <<year, month, r1 - preceding + 1>>

isoformat(d) == ord2ymd(d)

(***************************************************************************)
(* The JSON text of a history, as the sequence of its tokens.              *)
(***************************************************************************)
NoDate == <<0, 0, 0>>
Tok(kind) == [kind |-> kind, date |-> NoDate, status |-> ""]
ObjTok(entry) == [kind |-> "obj", date |-> entry.date, status |-> entry.status]
EntryOf(tok) == [date |-> tok.date, status |-> tok.status]

\* the items of a list, separated by commas
DumpItems(list) ==
    [k \in 1 .. (IF list = <<>> THEN 0 ELSE 2 * Len(list) - 1) |->
        IF k % 2 = 1 THEN ObjTok(list[(k + 1) \div 2]) ELSE Tok(",")]

json_dumps(list) == <<Tok("[")>> \o DumpItems(list) \o <<Tok("]")>>

\* the items between the brackets of an array: obj ("," obj)*
ParseItems(toks) ==
    LET ok == /\ Len(toks) % 2 = 1
              /\ \A k \in 1 .. Len(toks) :
                    toks[k].kind = (IF k % 2 = 1 THEN "obj" ELSE ",")
    IN  [ok |-> ok,
         items |-> IF ok THEN [j \in 1 .. (Len(toks) + 1) \div 2 |-> EntryOf(toks[2 * j - 1])]
                   ELSE <<>>]

\* json.loads: type is "list", "null" or "dict"; raised on malformed text
json_loads(text) ==
    LET bad == [raised |-> "JSONDecodeError", type |-> "none", items |-> <<>>]
    IN  IF text = <<Tok("null")>>
        THEN [raised |-> "none", type |-> "null", items |-> <<>>]
        ELSE IF Len(text) = 1 /\ text[1].kind = "obj"
        THEN [raised |-> "none", type |-> "dict", items |-> <<>>]
        ELSE IF Len(text) < 2 \/ text[1].kind # "[" \/ text[Len(text)].kind # "]"
        THEN bad
        ELSE IF Len(text) = 2
        THEN [raised |-> "none", type |-> "list", items |-> <<>>]
        ELSE LET r == ParseItems(SubSeq(text, 2, Len(text) - 1))
             IN  IF r.ok
                 THEN [raised |-> "none", type |-> "list", items |-> r.items]
                 ELSE bad

(***************************************************************************)
(* Problem (models.py)                                                     *)
(***************************************************************************)
Problem == [id |-> None, title |-> "", link |-> "", approach |-> "", code |-> "",
            streak_level |-> 1, next_review |-> None, last_marked |-> None,
            history |-> json_dumps(<<>>)]

\* mutant: the getter without its try/except, nothing is returned
history_list_uncaught(p) ==
    LET r == json_loads(p.history)
    IN  IF r.raised # "none" THEN [type |-> "none", items |-> <<>>]
        ELSE [type |-> r.type, items |-> r.items]

\* Problem.history_list getter: malformed text reads as the empty list
history_list(p) ==
    LET r == json_loads(p.history)
    IN  IF r.raised # "none" THEN [type |-> "list", items |-> <<>>]
        ELSE [type |-> r.type, items |-> r.items]

\* Problem.history_list setter
history_list_set(p, value) == [p EXCEPT !.history = json_dumps(value)]

\* Problem.add_history_entry(status), review_date defaulting to today
add_history_entry(t, p, status) ==
    LET history == history_list(p)
    IN  IF history.type # "list"
        THEN [problem |-> p, raised |-> "AttributeError"]
        ELSE [problem |-> history_list_set(p,
                  Append(history.items, [date |-> isoformat(t), status |-> status])),
              raised |-> "none"]

(***************************************************************************)
(* Scheduler (spaced_repetition.py).  An operation returns the Problem as  *)
(* it leaves it and the exception it raised, "none" when it returned.      *)
(***************************************************************************)

\* timedelta(days=n): OverflowError beyond 999999999 days
timedelta(days) ==
    IF days > TimedeltaMaxDays \/ days < -TimedeltaMaxDays
    THEN [raised |-> "OverflowError", days |-> 0]
    ELSE [raised |-> "none", days |-> days]

\* date + timedelta: OverflowError outside date.min .. date.max
date_add(d, delta) ==
    IF d + delta < 1 \/ d + delta > DateMax
    THEN [raised |-> "OverflowError", value |-> None]
    ELSE [raised |-> "none", value |-> d + delta]

\* mutant: the hard branch is missing, every review backs off exponentially
calculate_next_review_date_always_easy(t, streak_level, mark_as_easy) ==
    LET td == timedelta(STREAK_MULTIPLIER ^ streak_level)
    IN  IF td.raised # "none"
        THEN [raised |-> td.raised, value |-> None]
        ELSE date_add(t, td.days)

\* mutant: a hard review is due again on the day it was made
calculate_next_review_date_hard_today(t, streak_level, mark_as_easy) ==
    IF mark_as_easy
    THEN LET interval_days == STREAK_MULTIPLIER ^ streak_level
             td == timedelta(interval_days)
         IN  IF td.raised # "none"
             THEN [raised |-> td.raised, value |-> None]
             ELSE date_add(t, td.days)
    ELSE date_add(t, 0)

calculate_next_review_date(t, streak_level, mark_as_easy) ==
    IF mark_as_easy
    THEN LET interval_days == STREAK_MULTIPLIER ^ streak_level
             td == timedelta(interval_days)
         IN  IF td.raised # "none"
             THEN [raised |-> td.raised, value |-> None]
             ELSE date_add(t, td.days)
    ELSE date_add(t, INITIAL_INTERVAL_DAYS)

mark_problem_easy(t, problem) ==
    LET p1 == [problem EXCEPT !.streak_level = @ + 1]
        nr == calculate_next_review_date(t, p1.streak_level, TRUE)
    IN  IF nr.raised # "none"
        THEN [problem |-> p1, raised |-> nr.raised]
        ELSE add_history_entry(t,
                 [p1 EXCEPT !.next_review = nr.value, !.last_marked = t], "easy")

\* mutant: a hard review decrements the streak instead of resetting it
mark_problem_hard_decrement(t, problem) ==
    LET p1 == [problem EXCEPT !.streak_level = @ - 1]
        nr == calculate_next_review_date(t, p1.streak_level, FALSE)
    IN  IF nr.raised # "none"
        THEN [problem |-> p1, raised |-> nr.raised]
        ELSE add_history_entry(t,
                 [p1 EXCEPT !.next_review = nr.value, !.last_marked = t], "hard")

\* mutant: a hard review does not record its date in last_marked
mark_problem_hard_keeps_last_marked(t, problem) ==
    LET p1 == [problem EXCEPT !.streak_level = INITIAL_STREAK_LEVEL]
        nr == calculate_next_review_date(t, p1.streak_level, FALSE)
    IN  IF nr.raised # "none"
        THEN [problem |-> p1, raised |-> nr.raised]
        ELSE add_history_entry(t, [p1 EXCEPT !.next_review = nr.value], "hard")

mark_problem_hard(t, problem) ==
    LET p1 == [problem EXCEPT !.streak_level = INITIAL_STREAK_LEVEL]
        nr == calculate_next_review_date(t, p1.streak_level, FALSE)
    IN  IF nr.raised # "none"
        THEN [problem |-> p1, raised |-> nr.raised]
        ELSE add_history_entry(t,
                 [p1 EXCEPT !.next_review = nr.value, !.last_marked = t], "hard")

\* mutant: the threshold is today instead of yesterday
auto_mark_one_before_today(t, problem) ==
    IF problem.next_review # None /\ problem.next_review < t
    THEN LET p1 == [problem EXCEPT !.streak_level = INITIAL_STREAK_LEVEL]
             nr == calculate_next_review_date(t, p1.streak_level, FALSE)
         IN  IF nr.raised # "none"
             THEN [problem |-> p1, raised |-> nr.raised, marked |-> 0]
             ELSE LET r == add_history_entry(t,
                               [p1 EXCEPT !.next_review = nr.value], "auto-hard")
                  IN  [problem |-> r.problem, raised |-> r.raised,
                       marked |-> IF r.raised = "none" THEN 1 ELSE 0]
    ELSE [problem |-> problem, raised |-> "none", marked |-> 0]

\* mutant: auto-decay records last_marked as mark_problem_hard does
auto_mark_one_sets_last_marked(t, problem) ==
    IF problem.next_review # None /\ problem.next_review < t - 1
    THEN LET p1 == [problem EXCEPT !.streak_level = INITIAL_STREAK_LEVEL]
             nr == calculate_next_review_date(t, p1.streak_level, FALSE)
         IN  IF nr.raised # "none"
             THEN [problem |-> p1, raised |-> nr.raised, marked |-> 0]
             ELSE LET r == add_history_entry(t,
                               [p1 EXCEPT !.next_review = nr.value,
                                          !.last_marked = t], "auto-hard")
                  IN  [problem |-> r.problem, raised |-> r.raised,
                       marked |-> IF r.raised = "none" THEN 1 ELSE 0]
    ELSE [problem |-> problem, raised |-> "none", marked |-> 0]

\* the body of the loop of auto_mark_overdue_problems for one problem
auto_mark_one(t, problem) ==
    LET yesterday == t - 1
    IN  IF problem.next_review # None /\ problem.next_review < yesterday
        THEN LET p1 == [problem EXCEPT !.streak_level = INITIAL_STREAK_LEVEL]
                 nr == calculate_next_review_date(t, p1.streak_level, FALSE)
             IN  IF nr.raised # "none"
                 THEN [problem |-> p1, raised |-> nr.raised, marked |-> 0]
                 ELSE LET r == add_history_entry(t,
                                   [p1 EXCEPT !.next_review = nr.value], "auto-hard")
                      IN  [problem |-> r.problem, raised |-> r.raised,
                           marked |-> IF r.raised = "none" THEN 1 ELSE 0]
        ELSE [problem |-> problem, raised |-> "none", marked |-> 0]

\* auto_mark_overdue_problems(problems): the list as the loop leaves it, the
\* count, and the exception that ended the loop early, if any
RECURSIVE auto_mark_overdue_problems(_, _)
auto_mark_overdue_problems(t, list) ==
    IF list = <<>> THEN [problems |-> <<>>, count |-> 0, raised |-> "none"]
    ELSE LET h == auto_mark_one(t, list[1])
         IN  IF h.raised # "none"
             THEN [problems |-> <<h.problem>> \o Tail(list), count |-> 0,
                   raised |-> h.raised]
             ELSE LET r == auto_mark_overdue_problems(t, Tail(list))
                  IN  [problems |-> <<h.problem>> \o r.problems,
                       count |-> h.marked + r.count, raised |-> r.raised]

\* mutant: the history is left as it was
initialize_new_problem_keeps_history(t, problem) ==
    LET nr == date_add(t, INITIAL_INTERVAL_DAYS)
        p1 == [problem EXCEPT !.streak_level = INITIAL_STREAK_LEVEL]
    IN  IF nr.raised # "none"
        THEN [problem |-> p1, raised |-> nr.raised]
        ELSE [problem |-> [p1 EXCEPT !.next_review = nr.value,
                                     !.last_marked = None],
              raised |-> "none"]

initialize_new_problem(t, problem) ==
    LET nr == date_add(t, INITIAL_INTERVAL_DAYS)
        p1 == [problem EXCEPT !.streak_level = INITIAL_STREAK_LEVEL]
    IN  IF nr.raised # "none"
        THEN [problem |-> p1, raised |-> nr.raised]
        ELSE [problem |-> [p1 EXCEPT !.next_review = nr.value,
                                     !.last_marked = None,
                                     !.history = json_dumps(<<>>)],
              raised |-> "none"]

(***************************************************************************)
(* Store (db_manager.py, models.py).  A row keeps its dates as the ISO     *)
(* text that isoformat() wrote, NULL where the Problem had None; SQLite    *)
(* compares these texts character by character.                            *)
(***************************************************************************)
NULL == NoDate

\* datetime.strptime(text, '%Y-%m-%d').date(): the ordinal of <<y, m, d>>
strptime(ymd) ==
    LET y == ymd[1]
        m == ymd[2]
        d == ymd[3]
        leap == y % 4 = 0 /\ (y % 100 # 0 \/ y % 400 = 0)
        before_year == (y - 1) * 365 + (y - 1) \div 4 - (y - 1) \div 100
                         + (y - 1) \div 400
        before_month == DaysBeforeMonth[m] + (IF m > 2 /\ leap THEN 1 ELSE 0)
    IN  before_year + before_month + d

\* text comparison of two dates "YYYY-MM-DD"
TextLess(a, b) ==
    \/ a[1] < b[1]
    \/ a[1] = b[1] /\ a[2] < b[2]
    \/ a[1] = b[1] /\ a[2] = b[2] /\ a[3] < b[3]

\* mutant: the history is not bound, the column keeps its default '[]'
row_of_default_history(problem) ==
    [id |-> problem.id, title |-> problem.title, link |-> problem.link,
     approach |-> problem.approach, code |-> problem.code,
     streak_level |-> problem.streak_level,
     next_review |-> IF problem.next_review # None
                     THEN isoformat(problem.next_review) ELSE NULL,
     last_marked |-> IF problem.last_marked # None
                     THEN isoformat(problem.last_marked) ELSE NULL,
     history |-> json_dumps(<<>>)]

\* the parameters add_problem and update_problem bind for a Problem
row_of(problem) ==
    [id |-> problem.id, title |-> problem.title, link |-> problem.link,
     approach |-> problem.approach, code |-> problem.code,
     streak_level |-> problem.streak_level,
     next_review |-> IF problem.next_review # None
                     THEN isoformat(problem.next_review) ELSE NULL,
     last_marked |-> IF problem.last_marked # None
                     THEN isoformat(problem.last_marked) ELSE NULL,
     history |-> problem.history]

problem_from_row(row) ==
    [id |-> row.id, title |-> row.title, link |-> row.link,
     approach |-> row.approach, code |-> row.code,
     streak_level |-> row.streak_level,
     next_review |-> IF row.next_review # NULL THEN strptime(row.next_review) ELSE None,
     last_marked |-> IF row.last_marked # NULL THEN strptime(row.last_marked) ELSE None,
     history |-> row.history]

\* the rows with ids in S in index order: by next_review, then by id
RECURSIVE ByNextReview(_, _)
ByNextReview(d, S) ==
    IF S = {} THEN <<>>
    ELSE LET first == CHOOSE i \in S : \A j \in S \ {i} :
                          \/ TextLess(d[i].next_review, d[j].next_review)
                          \/ d[i].next_review = d[j].next_review /\ i < j
         IN  <<problem_from_row(d[first])>> \o ByNextReview(d, S \ {first})

RECURSIVE ById(_, _)
ById(d, S) ==
    IF S = {} THEN <<>>
    ELSE LET first == CHOOSE i \in S : \A j \in S : i <= j
         IN  <<problem_from_row(d[first])>> \o ById(d, S \ {first})

get_problem(d, problem_id) ==
    IF problem_id \in DOMAIN d THEN problem_from_row(d[problem_id]) ELSE None

get_all_problems(d) == ById(d, DOMAIN d)

\* mutant: a problem due exactly on target_date is not due yet
get_due_problems_before(d, target_date) ==
    ByNextReview(d, {i \in DOMAIN d :
        /\ d[i].next_review # NULL
        /\ TextLess(d[i].next_review, isoformat(target_date))})

get_due_problems(d, target_date) ==
    ByNextReview(d, {i \in DOMAIN d :
        /\ d[i].next_review # NULL
        /\ ~TextLess(isoformat(target_date), d[i].next_review)})

\* mutant: a problem due today is overdue already
get_overdue_problems_until_today(d, t) ==
    ByNextReview(d, {i \in DOMAIN d :
        /\ d[i].next_review # NULL
        /\ ~TextLess(isoformat(t), d[i].next_review)})

get_overdue_problems(d, t) ==
    ByNextReview(d, {i \in DOMAIN d :
        /\ d[i].next_review # NULL
        /\ TextLess(d[i].next_review, isoformat(t))})

\* mutant: INSERT OR REPLACE, a row is created when none has the id
update_problem_upsert(d, problem) ==
    [i \in DOMAIN d \cup {problem.id} |->
        IF i = problem.id THEN row_of(problem) ELSE d[i]]

\* UPDATE ... WHERE id = ?: no row with the id, nothing changes
update_problem(d, problem) ==
    IF problem.id \in DOMAIN d
    THEN [d EXCEPT ![problem.id] = row_of(problem)]
    ELSE d

\* mutant: INSERT OR REPLACE of count, the current count is lost
record_daily_review_overwrite(l, review_date, count) ==
    LET key == isoformat(review_date)
    IN  [k \in DOMAIN l \cup {key} |-> IF k = key THEN count ELSE l[k]]

\* INSERT OR REPLACE of COALESCE(current count, 0) + count
record_daily_review(l, review_date, count) ==
    LET key == isoformat(review_date)
        old == IF key \in DOMAIN l THEN l[key] ELSE 0
    IN  [k \in DOMAIN l \cup {key} |-> IF k = key THEN old + count ELSE l[k]]

\* mutant: id INTEGER PRIMARY KEY without AUTOINCREMENT, the rowid after the
\* largest one in the table
add_problem_reusing(d, q, problem) ==
    LET largest == IF DOMAIN d = {} THEN 0
                   ELSE CHOOSE i \in DOMAIN d : \A j \in DOMAIN d : j <= i
        lastrowid == largest + 1
    IN  [db |-> [i \in DOMAIN d \cup {lastrowid} |->
                    IF i = lastrowid THEN [row_of(problem) EXCEPT !.id = lastrowid]
                    ELSE d[i]],
         seq |-> lastrowid,
         lastrowid |-> lastrowid]

\* INSERT INTO problems: id INTEGER PRIMARY KEY AUTOINCREMENT takes the rowid
\* after the largest one the table ever held, which sqlite_sequence (q) keeps
add_problem(d, q, problem) ==
    LET largest == IF DOMAIN d = {} THEN 0
                   ELSE CHOOSE i \in DOMAIN d : \A j \in DOMAIN d : j <= i
        lastrowid == (IF q > largest THEN q ELSE largest) + 1
    IN  [db |-> [i \in DOMAIN d \cup {lastrowid} |->
                    IF i = lastrowid THEN [row_of(problem) EXCEPT !.id = lastrowid]
                    ELSE d[i]],
         seq |-> lastrowid,
         lastrowid |-> lastrowid]

\* mutant: returns True whether or not a row was deleted
delete_problem_reports_true(d, problem_id) ==
    [db |-> [i \in DOMAIN d \ {problem_id} |-> d[i]],
     deleted |-> TRUE]

\* DELETE FROM problems WHERE id = ?; returns cursor.rowcount > 0
delete_problem(d, problem_id) ==
    [db |-> [i \in DOMAIN d \ {problem_id} |-> d[i]],
     deleted |-> problem_id \in DOMAIN d]

\* the while loop of get_current_streak, from current_date backwards
RECURSIVE StreakFrom(_, _)
StreakFrom(l, current_date) ==
    IF /\ isoformat(current_date) \in DOMAIN l
       /\ l[isoformat(current_date)] > 0
    THEN 1 + StreakFrom(l, current_date - 1)
    ELSE 0

get_current_streak(l, t) == StreakFrom(l, t)

\* the entries with keys in K, latest date first (ORDER BY date DESC)
RECURSIVE ByDateDesc(_, _)
ByDateDesc(l, K) ==
    IF K = {} THEN <<>>
    ELSE LET first == CHOOSE k \in K : \A j \in K \ {k} : TextLess(j, k)
         IN  <<[date |-> first, problems_reviewed |-> l[first]]>>
                \o ByDateDesc(l, K \ {first})

\* mutant: the window starts days before today, one day too early
get_streak_data_from_days_ago(l, t, days) ==
    LET end_date == isoformat(t)
        start_date == isoformat(t - days)
    IN  ByDateDesc(l, {k \in DOMAIN l :
            ~TextLess(k, start_date) /\ ~TextLess(end_date, k)})

\* SELECT ... WHERE date BETWEEN start_date AND end_date ORDER BY date DESC
get_streak_data(l, t, days) ==
    LET end_date == isoformat(t)
        start_date == isoformat(t - (days - 1))
    IN  ByDateDesc(l, {k \in DOMAIN l :
            ~TextLess(k, start_date) /\ ~TextLess(end_date, k)})

(***************************************************************************)
(* Spec: the scheduler operations applied, in any order and on any day, to *)
(* Problem objects held in memory.                                         *)
(***************************************************************************)
Problems == 1 .. NumProblems

\* the Problem after initialize_new_problem and then k calls of
\* mark_problem_easy, all on day t
EasyRun(t, k) ==
    IF k = 0 THEN initialize_new_problem(t, Problem).problem ELSE
    [Problem EXCEPT !.streak_level = INITIAL_STREAK_LEVEL + k,
                    !.next_review = t + STREAK_MULTIPLIER ^ (INITIAL_STREAK_LEVEL + k),
                    !.last_marked = t,
                    !.history = json_dumps([j \in 1 .. k |->
                                    [date |-> isoformat(t), status |-> "easy"]])]

\* a Problem as the program can hold it when a session starts: just
\* constructed, initialized up to MaxAge days ago, or initialized and then
\* marked easy PreRun - 1 or PreRun times in a row (as far as the dates exist)
InitialProblems ==
    {Problem}
    \cup {initialize_new_problem(Today0 - k, Problem).problem : k \in 0 .. MaxAge}
    \cup {EasyRun(Today0, k) : k \in {j \in {PreRun - 1, PreRun} :
              Today0 + STREAK_MULTIPLIER ^ (INITIAL_STREAK_LEVEL + j) <= DateMax}}

NoRef == [src |-> "none", idx |-> 0]
NoWorkflow == [pc |-> "idle", kind |-> "none"]

\* no process is running and nothing is stored
AppIdle ==
    /\ db = <<>>
    /\ ledger = <<>>
    /\ seq = 0
    /\ created = {}
    /\ proc = "down"
    /\ startDay = None
    /\ dueList = <<>>
    /\ allList = <<>>
    /\ card = Problem
    /\ cur = NoRef
    /\ wf = NoWorkflow
    /\ confirm_delete = FALSE
    /\ delete_problem_id = None

Init ==
    /\ today = Today0
    /\ problems \in [Problems -> InitialProblems]
    /\ err = "none"
    /\ ret = 0
    /\ last = [op |-> "none", i |-> 0]
    /\ steps = 0
    /\ AppIdle

Initialize(i) ==
    /\ steps < MaxSteps
    /\ LET r == initialize_new_problem(today, problems[i])
       IN  /\ problems' = [problems EXCEPT ![i] = r.problem]
           /\ err' = r.raised
    /\ last' = [op |-> "initialize", i |-> i]
    /\ steps' = steps + 1
    /\ UNCHANGED <<today, ret>>
    /\ UNCHANGED appVars

MarkEasy(i) ==
    /\ steps < MaxSteps
    /\ LET r == mark_problem_easy(today, problems[i])
       IN  /\ problems' = [problems EXCEPT ![i] = r.problem]
           /\ err' = r.raised
    /\ last' = [op |-> "mark_easy", i |-> i]
    /\ steps' = steps + 1
    /\ UNCHANGED <<today, ret>>
    /\ UNCHANGED appVars

MarkHard(i) ==
    /\ steps < MaxSteps
    /\ LET r == mark_problem_hard(today, problems[i])
       IN  /\ problems' = [problems EXCEPT ![i] = r.problem]
           /\ err' = r.raised
    /\ last' = [op |-> "mark_hard", i |-> i]
    /\ steps' = steps + 1
    /\ UNCHANGED <<today, ret>>
    /\ UNCHANGED appVars

\* auto_mark_overdue_problems on the list of all the problems held
AutoDecay ==
    /\ steps < MaxSteps
    /\ LET r == auto_mark_overdue_problems(today, problems)
       IN  /\ problems' = r.problems
           /\ err' = r.raised
           /\ ret' = r.count
    /\ last' = [op |-> "auto_decay", i |-> 0]
    /\ steps' = steps + 1
    /\ UNCHANGED today
    /\ UNCHANGED appVars

\* d midnights pass
AdvanceDay(d) ==
    /\ steps < MaxSteps
    /\ today + d <= Today0 + MaxDays
    /\ today' = today + d
    /\ last' = [op |-> "advance_day", i |-> 0]
    /\ steps' = steps + 1
    /\ UNCHANGED <<problems, err, ret>>
    /\ UNCHANGED appVars

Next ==
    \/ \E i \in Problems : Initialize(i)
    \/ \E i \in Problems : MarkEasy(i)
    \/ \E i \in Problems : MarkHard(i)
    \/ AutoDecay
    \/ \E d \in 1 .. MaxDays : AdvanceDay(d)

Spec == Init /\ [][Next]_vars

(***************************************************************************)
(* SpecApp: one process at a time runs the TUI (ui/app.py) or the console  *)
(* GUI (gui/app.py) on the stored problems.  The screens of the TUI keep   *)
(* the lists they loaded; the problem under review is an element of one of *)
(* them, or the problem card of the GUI.  A mark-outcome handler is split  *)
(* into its three calls so that the process can stop between them.         *)
(***************************************************************************)
Stored == 1 .. NumStored

\* the store before the session: problem i was added MaxAge - i + 1 days ago
InitialStore ==
    [i \in Stored |->
        row_of([initialize_new_problem(Today0 - (MaxAge - i + 1), Problem).problem
                   EXCEPT !.id = i, !.title = "title"])]

InitApp ==
    /\ today = Today0
    /\ problems = <<>>
    /\ err = "none"
    /\ ret = 0
    /\ last = [op |-> "none", i |-> 0]
    /\ steps = 0
    /\ db = InitialStore
    /\ ledger = <<>>
    /\ seq = NumStored
    /\ created = Stored
    /\ proc = "down"
    /\ startDay = None
    /\ dueList = <<>>
    /\ allList = <<>>
    /\ card = Problem
    /\ cur = NoRef
    /\ wf = NoWorkflow
    /\ confirm_delete = FALSE
    /\ delete_problem_id = None

Tick ==
    /\ steps < MaxAppSteps
    /\ steps' = steps + 1
    /\ UNCHANGED <<problems, ret, seq, created, confirm_delete, delete_problem_id>>

\* the Problem object on the review screen or the problem card
CurProblem ==
    IF cur.src = "due" THEN dueList[cur.idx]
    ELSE IF cur.src = "all" THEN allList[cur.idx]
    ELSE card

\* the object is mutated in place: the list that holds it sees the change
SetCurProblem(p) ==
    /\ dueList' = IF cur.src = "due" THEN [dueList EXCEPT ![cur.idx] = p] ELSE dueList
    /\ allList' = IF cur.src = "all" THEN [allList EXCEPT ![cur.idx] = p] ELSE allList
    /\ card' = IF cur.src = "card" THEN p ELSE card

\* mutant: the decayed problems are not written back
UpdateAll_forgotten(d, list) == d

\* for problem in overdue_problems: self.db.update_problem(problem)
RECURSIVE UpdateAll(_, _)
UpdateAll(d, list) ==
    IF list = <<>> THEN d ELSE UpdateAll(update_problem(d, list[1]), Tail(list))

\* mutant: the start counts the problems it decayed as reviews of today
Start_recording_decays(ui) ==
    /\ Tick
    /\ proc = "down"
    /\ LET overdue_problems == get_overdue_problems(db, today)
           r == auto_mark_overdue_problems(today, overdue_problems)
       IN  /\ err' = r.raised
           /\ db' = IF overdue_problems # <<>> /\ r.raised = "none"
                    THEN UpdateAll(db, r.problems) ELSE db
           /\ ledger' = IF r.count > 0
                        THEN record_daily_review(ledger, today, r.count) ELSE ledger
           /\ proc' = IF r.raised = "none" THEN ui ELSE "down"
           /\ startDay' = IF r.raised = "none" THEN today ELSE startDay
    /\ last' = [op |-> "start", i |-> 0]
    /\ UNCHANGED <<today, dueList, allList, card, cur, wf>>

\* DSARecallApp.__init__ / DSARecallGUI.__init__: auto-decay, then the UI
Start(ui) ==
    /\ Tick
    /\ proc = "down"
    /\ LET overdue_problems == get_overdue_problems(db, today)
           r == auto_mark_overdue_problems(today, overdue_problems)
       IN  /\ err' = r.raised
           /\ db' = IF overdue_problems # <<>> /\ r.raised = "none"
                    THEN UpdateAll(db, r.problems) ELSE db
           /\ proc' = IF r.raised = "none" THEN ui ELSE "down"
           /\ startDay' = IF r.raised = "none" THEN today ELSE startDay
    /\ last' = [op |-> "start", i |-> 0]
    /\ UNCHANGED <<today, ledger, dueList, allList, card, cur, wf>>

\* the process ends: exit, kill or power loss, at any point
Stop ==
    /\ Tick
    /\ proc # "down"
    /\ proc' = "down"
    /\ dueList' = <<>>
    /\ allList' = <<>>
    /\ card' = Problem
    /\ cur' = NoRef
    /\ wf' = NoWorkflow
    /\ last' = [op |-> "stop", i |-> 0]
    /\ UNCHANGED <<today, err, db, ledger, startDay>>

\* d midnights pass
AppAdvanceDay(d) ==
    /\ Tick
    /\ today + d <= Today0 + MaxDays
    /\ today' = today + d
    /\ last' = [op |-> "advance_day", i |-> 0]
    /\ UNCHANGED <<err, db, ledger, proc, startDay, dueList, allList, card, cur, wf>>

\* ReviewDashboardScreen.refresh_data (on mount, or key r)
TuiRefreshDue ==
    /\ Tick
    /\ proc = "tui" /\ cur = NoRef
    /\ dueList' = get_due_problems(db, today)
    /\ last' = [op |-> "refresh_due", i |-> 0]
    /\ UNCHANGED <<today, err, db, ledger, proc, startDay, allList, card, cur, wf>>

\* AllProblemsScreen.refresh_data (on mount, or key r)
TuiRefreshAll ==
    /\ Tick
    /\ proc = "tui" /\ cur = NoRef
    /\ allList' = get_all_problems(db)
    /\ last' = [op |-> "refresh_all", i |-> 0]
    /\ UNCHANGED <<today, err, db, ledger, proc, startDay, dueList, card, cur, wf>>

\* action_review_selected / action_view_selected: go_to_problem_review
TuiSelect(src, idx) ==
    /\ Tick
    /\ proc = "tui" /\ cur = NoRef
    /\ \/ src = "due" /\ idx \in DOMAIN dueList
       \/ src = "all" /\ idx \in DOMAIN allList
    /\ cur' = [src |-> src, idx |-> idx]
    /\ last' = [op |-> "select", i |-> idx]
    /\ UNCHANGED <<today, err, db, ledger, proc, startDay, dueList, allList, card, wf>>

\* DSARecallGUI.run, view_problem: get_problem, show_problem_card_window
GuiView(problem_id) ==
    /\ Tick
    /\ proc = "gui" /\ cur = NoRef
    /\ problem_id \in DOMAIN db
    /\ card' = get_problem(db, problem_id)
    /\ cur' = [src |-> "card", idx |-> 0]
    /\ last' = [op |-> "view", i |-> problem_id]
    /\ UNCHANGED <<today, err, db, ledger, proc, startDay, dueList, allList, wf>>

\* action_go_back / choice b
Back ==
    /\ Tick
    /\ cur # NoRef /\ wf = NoWorkflow
    /\ cur' = NoRef
    /\ last' = [op |-> "back", i |-> 0]
    /\ UNCHANGED <<today, err, db, ledger, proc, startDay, dueList, allList, card, wf>>

\* mutant: the ledger is written before the problem
WorkflowSteps_record_first == <<"mutate", "record", "persist">>

\* the calls of a mark-outcome handler, in the order the handler makes them
WorkflowSteps == <<"mutate", "persist", "record">>

IndexOf(step) == CHOOSE k \in 1 .. Len(WorkflowSteps) : WorkflowSteps[k] = step

\* wf.pc names the last call that returned; the handler is due for step when
AtStep(step) ==
    /\ cur # NoRef
    /\ wf.pc = IF IndexOf(step) = 1 THEN "idle" ELSE WorkflowSteps[IndexOf(step) - 1]

\* the handler returns after its last call: the TUI pops the screen, the
\* problem card returns to the dashboard
AfterStep(step, kind) ==
    IF IndexOf(step) = Len(WorkflowSteps)
    THEN /\ wf' = NoWorkflow
         /\ cur' = NoRef
    ELSE /\ wf' = [pc |-> step, kind |-> kind]
         /\ cur' = cur

\* an exception ends the handler: the TUI reports it and stays on the review
\* screen, the GUI reports it in run() and shows the dashboard
AfterException ==
    /\ wf' = NoWorkflow
    /\ cur' = IF proc = "tui" THEN cur ELSE NoRef

\* mark_problem_easy(problem) / mark_problem_hard(problem)
WfMutate(kind) ==
    /\ Tick
    /\ proc # "down"
    /\ AtStep("mutate")
    /\ wf.pc # "idle" => wf.kind = kind
    /\ LET r == IF kind = "easy" THEN mark_problem_easy(today, CurProblem)
                ELSE mark_problem_hard(today, CurProblem)
       IN  /\ SetCurProblem(r.problem)
           /\ err' = r.raised
           /\ IF r.raised = "none" THEN AfterStep("mutate", kind) ELSE AfterException
    /\ last' = [op |-> "mutate", i |-> 0]
    /\ UNCHANGED <<today, db, ledger, proc, startDay>>

\* db.update_problem(problem)
WfPersist ==
    /\ Tick
    /\ proc # "down"
    /\ AtStep("persist")
    /\ wf.pc # "idle"
    /\ db' = update_problem(db, CurProblem)
    /\ AfterStep("persist", wf.kind)
    /\ last' = [op |-> "persist", i |-> 0]
    /\ UNCHANGED <<today, err, ledger, proc, startDay, dueList, allList, card>>

\* db.record_daily_review()
WfRecord ==
    /\ Tick
    /\ proc # "down"
    /\ AtStep("record")
    /\ wf.pc # "idle"
    /\ ledger' = record_daily_review(ledger, today, 1)
    /\ AfterStep("record", wf.kind)
    /\ last' = [op |-> "record", i |-> 0]
    /\ UNCHANGED <<today, err, db, proc, startDay, dueList, allList, card>>

\* update_problem or record_daily_review raises sqlite3.Error
WfStoreFails ==
    /\ Tick
    /\ proc # "down"
    /\ wf.pc # "idle"
    /\ AfterException
    /\ err' = "sqlite3.Error"
    /\ last' = [op |-> "store_fails", i |-> 0]
    /\ UNCHANGED <<today, db, ledger, proc, startDay, dueList, allList, card>>

NextApp ==
    \/ \E ui \in {"tui", "gui"} : Start(ui)
    \/ Stop
    \/ \E d \in 1 .. MaxDays : AppAdvanceDay(d)
    \/ TuiRefreshDue
    \/ TuiRefreshAll
    \/ \E src \in {"due", "all"}, idx \in Stored : TuiSelect(src, idx)
    \/ \E id \in Stored : GuiView(id)
    \/ Back
    \/ \E kind \in {"easy", "hard"} : WfMutate(kind)
    \/ WfPersist
    \/ WfRecord
    \/ WfStoreFails

SpecApp == InitApp /\ [][NextApp]_vars

(***************************************************************************)
(* SpecStore: the operations of DatabaseManager called in any order, on    *)
(* any day, on a store that already holds problems.  ret is the value the  *)
(* last call returned, under the name of what it is.                      *)
(***************************************************************************)
\* the call returned None
Returned_None == [none |-> TRUE]

\* the store before the calls: of the problems of InitialStore the first was
\* reviewed hard yesterday (mutate, persist, record), a Problem that was never
\* initialized has been added, and one more problem was added and deleted
StoreBefore ==
    LET reviewed == mark_problem_hard(Today0 - 1, get_problem(InitialStore, 1)).problem
        d1 == update_problem(InitialStore, reviewed)
        a2 == add_problem(d1, NumStored, [Problem EXCEPT !.title = "title"])
        a3 == add_problem(a2.db, a2.seq,
                  [initialize_new_problem(Today0 - 1, Problem).problem
                      EXCEPT !.title = "title"])
    IN  [db |-> delete_problem(a3.db, a3.lastrowid).db,
         seq |-> a3.seq,
         ledger |-> record_daily_review(<<>>, Today0 - 1, 1)]

InitStore ==
    /\ today = Today0
    /\ problems = <<>>
    /\ err = "none"
    /\ ret = Returned_None
    /\ last = [op |-> "none", i |-> 0]
    /\ steps = 0
    /\ db = StoreBefore.db
    /\ ledger = StoreBefore.ledger
    /\ seq = StoreBefore.seq
    /\ created = 1 .. StoreBefore.seq
    /\ proc = "down"
    /\ startDay = None
    /\ dueList = <<>>
    /\ allList = <<>>
    /\ card = Problem
    /\ cur = NoRef
    /\ wf = NoWorkflow
    /\ confirm_delete = FALSE
    /\ delete_problem_id = None

StoreTick ==
    /\ steps < MaxStoreSteps
    /\ steps' = steps + 1
    /\ UNCHANGED <<problems, err, uiVars>>

\* the Problem objects a caller builds and adds on day t: a bare Problem, an
\* initialized one (add problem screen), one with every field filled in
NewProblems(t) ==
    {[Problem EXCEPT !.title = "title"],
     [initialize_new_problem(t, Problem).problem EXCEPT !.title = "title"],
     [EasyRun(t, 1) EXCEPT !.title = "title", !.link = "link",
                           !.approach = "approach", !.code = "code"]}

\* the ids a caller passes: None, an id the store assigned, the next one
CallerIds == 0 .. (seq + 1)

\* the Problem object with this id that a caller holds: the stored one, or
\* one whose row is gone (or that was never stored)
HeldProblem(problem_id) ==
    IF problem_id \in DOMAIN db THEN get_problem(db, problem_id)
    ELSE [initialize_new_problem(today, Problem).problem
             EXCEPT !.id = problem_id, !.title = "title"]

\* what a caller does to the Problem it holds before update_problem: a
\* review, or an edit of the text fields (edit problem screen)
Changed(p) ==
    {mark_problem_easy(today, p).problem,
     mark_problem_hard(today, p).problem,
     [p EXCEPT !.title = "edited", !.link = "edited",
               !.approach = "edited", !.code = "edited"]}

AddProblem(problem) ==
    /\ StoreTick
    /\ last' = [op |-> "add_problem", i |-> 0]
    /\ LET r == add_problem(db, seq, problem)
       IN  /\ db' = r.db
           /\ seq' = r.seq
           /\ ret' = [lastrowid |-> r.lastrowid]
           /\ created' = created \cup {r.lastrowid}
    /\ UNCHANGED <<today, ledger>>

GetProblem(problem_id) ==
    /\ StoreTick
    /\ last' = [op |-> "get_problem", i |-> problem_id]
    /\ ret' = IF problem_id \in DOMAIN db
              THEN [problem |-> get_problem(db, problem_id)]
              ELSE Returned_None
    /\ UNCHANGED <<today, storeVars>>

GetAllProblems ==
    /\ StoreTick
    /\ last' = [op |-> "get_all_problems", i |-> 0]
    /\ ret' = [problems |-> get_all_problems(db)]
    /\ UNCHANGED <<today, storeVars>>

GetDueProblems(target_date) ==
    /\ StoreTick
    /\ last' = [op |-> "get_due_problems", i |-> target_date]
    /\ ret' = [problems |-> get_due_problems(db, target_date)]
    /\ UNCHANGED <<today, storeVars>>

GetOverdueProblems ==
    /\ StoreTick
    /\ last' = [op |-> "get_overdue_problems", i |-> 0]
    /\ ret' = [problems |-> get_overdue_problems(db, today)]
    /\ UNCHANGED <<today, storeVars>>

UpdateProblem(problem) ==
    /\ StoreTick
    /\ last' = [op |-> "update_problem", i |-> problem.id]
    /\ db' = update_problem(db, problem)
    /\ ret' = Returned_None
    /\ UNCHANGED <<today, ledger, seq, created>>

DeleteProblem(problem_id) ==
    /\ StoreTick
    /\ last' = [op |-> "delete_problem", i |-> problem_id]
    /\ LET r == delete_problem(db, problem_id)
       IN  /\ db' = r.db
           /\ ret' = [deleted |-> r.deleted]
    /\ UNCHANGED <<today, ledger, seq, created>>

RecordDailyReview(review_date, count) ==
    /\ StoreTick
    /\ last' = [op |-> "record_daily_review", i |-> review_date]
    /\ ledger' = record_daily_review(ledger, review_date, count)
    /\ ret' = Returned_None
    /\ UNCHANGED <<today, db, seq, created>>

GetCurrentStreak ==
    /\ StoreTick
    /\ last' = [op |-> "get_current_streak", i |-> 0]
    /\ ret' = [streak |-> get_current_streak(ledger, today)]
    /\ UNCHANGED <<today, storeVars>>

\* d midnights pass
StoreAdvanceDay(d) ==
    /\ StoreTick
    /\ last' = [op |-> "advance_day", i |-> 0]
    /\ today + d <= Today0 + MaxDays
    /\ today' = today + d
    /\ UNCHANGED <<ret, storeVars>>

NextStore ==
    \/ \E problem \in NewProblems(today) : AddProblem(problem)
    \/ \E problem_id \in CallerIds : GetProblem(problem_id)
    \/ GetAllProblems
    \/ \E target_date \in (today - MaxBack) .. (today + MaxBack) :
          GetDueProblems(target_date)
    \/ GetOverdueProblems
    \/ \E problem_id \in CallerIds :
          \E problem \in Changed(HeldProblem(problem_id)) : UpdateProblem(problem)
    \/ \E problem_id \in CallerIds : DeleteProblem(problem_id)
    \/ \E review_date \in (today - MaxBack) .. today, count \in Counts :
          RecordDailyReview(review_date, count)
    \/ GetCurrentStreak
    \/ \E d \in 1 .. MaxDays : StoreAdvanceDay(d)

SpecStore == InitStore /\ [][NextStore]_vars

(***************************************************************************)
(* SpecHistory: the history of one Problem is set from a list, read back,  *)
(* extended by add_history_entry, and its text is damaged in between (a    *)
(* truncated or garbled row is what problem_from_row then loads).          *)
(***************************************************************************)
HistoryEntries ==
    {[date |-> isoformat(Today0 - 1), status |-> status] : status \in {"easy", "hard"}}
    \cup {[date |-> isoformat(Today0), status |-> "auto-hard"]}

\* the lists a caller assigns to history_list
Histories == UNION {[1 .. n -> HistoryEntries] : n \in 0 .. MaxHistory}

\* what damage makes of a text: a part of it, the text without one of its
\* tokens, the text with one token garbled, or the text null
Damaged(text) ==
    {SubSeq(text, a, b) : a \in 1 .. (Len(text) + 1), b \in 0 .. Len(text)}
    \cup {SubSeq(text, 1, k - 1) \o SubSeq(text, k + 1, Len(text)) : k \in DOMAIN text}
    \cup {[text EXCEPT ![k] = Tok("junk")] : k \in DOMAIN text}
    \cup {<<Tok("null")>>}

InitHistory ==
    /\ today = Today0
    /\ problems = <<Problem>>
    /\ err = "none"
    /\ ret = 0
    /\ last = [op |-> "none", i |-> 0]
    /\ steps = 0
    /\ AppIdle

HistoryTick ==
    /\ steps < MaxHistorySteps
    /\ steps' = steps + 1
    /\ UNCHANGED <<today, ret, appVars>>

\* problem.history_list = value
SetHistoryList(value) ==
    /\ HistoryTick
    /\ last' = [op |-> "set_history_list", value |-> value]
    /\ problems' = <<history_list_set(problems[1], value)>>
    /\ err' = "none"

\* the Problem is loaded again from a row whose history text is damaged
LoadDamaged(text) ==
    /\ HistoryTick
    /\ last' = [op |-> "load_damaged", text |-> text]
    /\ text # problems[1].history
    /\ problems' = <<[problems[1] EXCEPT !.history = text]>>
    /\ err' = "none"

\* problem.add_history_entry(status)
AddHistoryEntry(status) ==
    /\ HistoryTick
    /\ last' = [op |-> "add_history_entry", i |-> Len(problems[1].history)]
    /\ LET r == add_history_entry(today, problems[1], status)
       IN  /\ problems' = <<r.problem>>
           /\ err' = r.raised

NextHistory ==
    \/ \E value \in Histories : SetHistoryList(value)
    \/ \E text \in Damaged(problems[1].history) : LoadDamaged(text)
    \/ \E status \in {"easy", "hard", "auto-hard"} : AddHistoryEntry(status)

SpecHistory == InitHistory /\ [][NextHistory]_vars

(***************************************************************************)
(* SpecAdd: initialize_new_problem applied to Problem objects held in      *)
(* memory, and the add-problem workflows of the two UIs.  card is the      *)
(* Problem of the form: self.problem of the AddProblemScreen, which the    *)
(* TUI installs once and shows again as it was left, or the local problem  *)
(* of show_add_problem_window.                                             *)
(***************************************************************************)
OnForm == [src |-> "form", idx |-> 0]

\* Problem objects with their text fields set and scheduling fields of every
\* kind: never initialized, and reviewed easy twice yesterday
FilledProblems ==
    {[Problem EXCEPT !.title = "title", !.link = "link"],
     [EasyRun(Today0 - 1, 2) EXCEPT !.title = "title", !.link = "link",
                                    !.approach = "approach", !.code = "code"]}

\* what the user types into the title and the link inputs
Titles == {"", "title"}
Links == {"", "link"}

InitAdd ==
    /\ today = Today0
    /\ problems \in [Problems -> FilledProblems]
    /\ err = "none"
    /\ ret = 0
    /\ last = [op |-> "none", i |-> 0]
    /\ steps = 0
    /\ db = InitialStore
    /\ ledger = <<>>
    /\ seq = NumStored
    /\ created = Stored
    /\ proc \in {"tui", "gui"}
    /\ startDay = Today0
    /\ dueList = <<>>
    /\ allList = <<>>
    /\ card = Problem
    /\ cur = NoRef
    /\ wf = NoWorkflow
    /\ confirm_delete = FALSE
    /\ delete_problem_id = None

AddTick ==
    /\ steps < MaxAddSteps
    /\ steps' = steps + 1
    /\ UNCHANGED <<problems, ret, ledger, proc, startDay, dueList, allList, wf,
                   confirm_delete, delete_problem_id>>

\* go_to_add_problem pushes the installed screen; show_add_problem_window
\* starts from problem = Problem()
AddOpen ==
    /\ AddTick
    /\ last' = [op |-> "add_open", i |-> 0]
    /\ cur = NoRef
    /\ cur' = OnForm
    /\ card' = IF proc = "gui" THEN Problem ELSE card
    /\ UNCHANGED <<today, err, db, seq, created>>

\* action_edit_approach / approach_choice '1': the editor returned a text
AddEditApproach ==
    /\ AddTick
    /\ last' = [op |-> "add_edit_approach", i |-> 0]
    /\ cur = OnForm
    /\ card' = [card EXCEPT !.approach = "approach"]
    /\ UNCHANGED <<today, err, db, seq, created, cur>>

\* action_edit_code / code_choice '1': the editor returned a text
AddEditCode ==
    /\ AddTick
    /\ last' = [op |-> "add_edit_code", i |-> 0]
    /\ cur = OnForm
    /\ card' = [card EXCEPT !.code = "code"]
    /\ UNCHANGED <<today, err, db, seq, created, cur>>

\* the Problem that the save handler hands to add_problem: the title and the
\* link of the inputs, then initialize_new_problem
ProblemToSave(title, link) ==
    initialize_new_problem(today, [card EXCEPT !.title = title, !.link = link]).problem

\* action_save_problem / confirm 'y'.  Without a title the TUI reports it and
\* returns; the GUI keeps asking until it has one.
AddSave(title, link) ==
    /\ AddTick
    /\ last' = [op |-> "add_save", title |-> title, link |-> link,
                was |-> card.next_review]
    /\ cur = OnForm
    /\ proc = "gui" => title # ""
    /\ IF title = ""
       THEN UNCHANGED <<db, seq, created, card, cur>>
       ELSE LET r == add_problem(db, seq, ProblemToSave(title, link))
            IN  /\ db' = r.db
                /\ seq' = r.seq
                /\ created' = created \cup {r.lastrowid}
                /\ card' = Problem
                /\ cur' = NoRef
    /\ err' = "none"
    /\ UNCHANGED today

\* add_problem raises: the TUI reports it and stays on the form, whose
\* Problem has been initialized; show_add_problem_window returns False
AddSaveFails(title, link) ==
    /\ AddTick
    /\ last' = [op |-> "add_save_fails", title |-> title, link |-> link]
    /\ cur = OnForm
    /\ title # ""
    /\ card' = IF proc = "tui" THEN ProblemToSave(title, link) ELSE Problem
    /\ cur' = IF proc = "tui" THEN cur ELSE NoRef
    /\ err' = "sqlite3.Error"
    /\ UNCHANGED <<today, db, seq, created>>

\* action_go_back / confirm 'n'
AddCancel ==
    /\ AddTick
    /\ last' = [op |-> "add_cancel", i |-> 0]
    /\ cur = OnForm
    /\ cur' = NoRef
    /\ card' = IF proc = "gui" THEN Problem ELSE card
    /\ UNCHANGED <<today, err, db, seq, created>>

\* d midnights pass
AddAdvanceDay(d) ==
    /\ AddTick
    /\ last' = [op |-> "advance_day", i |-> 0]
    /\ today + d <= Today0 + MaxDays
    /\ today' = today + d
    /\ UNCHANGED <<err, db, seq, created, card, cur>>

NextAdd ==
    \/ \E i \in Problems : Initialize(i)
    \/ AddOpen
    \/ AddEditApproach
    \/ AddEditCode
    \/ \E title \in Titles, link \in Links : AddSave(title, link)
    \/ \E title \in Titles, link \in Links : AddSaveFails(title, link)
    \/ AddCancel
    \/ \E d \in 1 .. MaxDays : AddAdvanceDay(d)

SpecAdd == InitAdd /\ [][NextAdd]_vars

(***************************************************************************)
(* SpecLedger: the queries of the daily ledger, on any ledger that         *)
(* record_daily_review can have left.  get_current_streak runs one         *)
(* iteration of its loop at a time; wf holds its local variables and the   *)
(* number of SELECTs it has executed.                                      *)
(***************************************************************************)
\* the dates with an entry: up to MaxBack days ago, and tomorrow
LedgerDates == (Today0 - MaxBack) .. (Today0 + 1)

\* the counts of the entries: a sum of recorded counts
LedgerCounts == {c \in Counts : c <= 1}

Ledgers ==
    UNION {[{isoformat(d) : d \in S} -> LedgerCounts] : S \in SUBSET LedgerDates}

\* the values of days that callers pass (the screens pass 30 and 14)
Windows == 0 .. (MaxBack + 2)

InitLedger ==
    /\ today = Today0
    /\ problems = <<>>
    /\ err = "none"
    /\ ret = Returned_None
    /\ last = [op |-> "none", i |-> 0]
    /\ steps = 0
    /\ db = InitialStore
    /\ ledger \in Ledgers
    /\ seq = NumStored
    /\ created = Stored
    /\ proc = "down"
    /\ startDay = None
    /\ dueList = <<>>
    /\ allList = <<>>
    /\ card = Problem
    /\ cur = NoRef
    /\ wf = NoWorkflow
    /\ confirm_delete = FALSE
    /\ delete_problem_id = None

LedgerFrame ==
    UNCHANGED <<today, problems, err, steps, storeVars,
                proc, startDay, dueList, allList, card, cur,
                confirm_delete, delete_problem_id>>

GetStreakData(days) ==
    /\ wf = NoWorkflow
    /\ last' = [op |-> "get_streak_data", i |-> days]
    /\ ret' = [rows |-> get_streak_data(ledger, today, days)]
    /\ UNCHANGED wf
    /\ LedgerFrame

\* get_current_streak is called: streak = 0, current_date = date.today()
StreakBegin ==
    /\ wf = NoWorkflow
    /\ last' = [op |-> "streak_begin", i |-> 0]
    /\ wf' = [pc |-> "while", kind |-> "get_current_streak",
              streak |-> 0, current_date |-> today, lookups |-> 0]
    /\ UNCHANGED ret
    /\ LedgerFrame

\* mutant: a date counts when it has an entry, whatever its count
StreakLookup_counts_zero ==
    /\ wf.pc = "while"
    /\ last' = [op |-> "streak_lookup", i |-> wf.lookups + 1]
    /\ IF isoformat(wf.current_date) \in DOMAIN ledger
       THEN /\ wf' = [wf EXCEPT !.streak = @ + 1, !.current_date = @ - 1,
                                !.lookups = @ + 1]
            /\ UNCHANGED ret
       ELSE /\ wf' = NoWorkflow
            /\ ret' = [streak |-> wf.streak]
    /\ LedgerFrame

\* one iteration of the while loop: the SELECT for current_date, then one
\* more day back, or break and return streak
StreakLookup ==
    /\ wf.pc = "while"
    /\ last' = [op |-> "streak_lookup", i |-> wf.lookups + 1]
    /\ IF /\ isoformat(wf.current_date) \in DOMAIN ledger
          /\ ledger[isoformat(wf.current_date)] > 0
       THEN /\ wf' = [wf EXCEPT !.streak = @ + 1, !.current_date = @ - 1,
                                !.lookups = @ + 1]
            /\ UNCHANGED ret
       ELSE /\ wf' = NoWorkflow
            /\ ret' = [streak |-> wf.streak]
    /\ LedgerFrame

NextLedger ==
    \/ \E days \in Windows : GetStreakData(days)
    \/ StreakBegin
    \/ StreakLookup

SpecLedger == InitLedger /\ [][NextLedger]_vars

\* the loop runs on once it has been entered: nothing else runs in between
SpecLedgerLive == SpecLedger /\ WF_vars(StreakLookup)

(***************************************************************************)
(* SpecBrowse: the All Problems screen of the TUI.  all_problems of the    *)
(* screen is allList; the row of the table cursor is an input of the       *)
(* delete action, since the user moves it freely between two key presses.  *)
(***************************************************************************)
InitBrowse ==
    /\ today = Today0
    /\ problems = <<>>
    /\ err = "none"
    /\ ret = 0
    /\ last = [op |-> "none", i |-> 0]
    /\ steps = 0
    /\ db = StoreBefore.db
    /\ ledger = StoreBefore.ledger
    /\ seq = StoreBefore.seq
    /\ created = 1 .. StoreBefore.seq
    /\ proc = "tui"
    /\ startDay = Today0
    /\ dueList = <<>>
    /\ allList = <<>>
    /\ card = Problem
    /\ cur = NoRef
    /\ wf = NoWorkflow
    /\ confirm_delete = FALSE
    /\ delete_problem_id = None

BrowseTick ==
    /\ steps < MaxBrowseSteps
    /\ steps' = steps + 1
    /\ UNCHANGED <<today, problems, ret, ledger, proc, startDay, dueList, card, cur, wf>>

\* on_mount / action_refresh: refresh_data
BrowseRefresh ==
    /\ BrowseTick
    /\ last' = [op |-> "refresh_all", i |-> 0]
    /\ allList' = get_all_problems(db)
    /\ UNCHANGED <<err, db, seq, created, confirm_delete, delete_problem_id>>

\* the add problem screen stored a problem; the list of this screen is not
\* loaded again
BrowseAddProblem ==
    /\ BrowseTick
    /\ last' = [op |-> "add_problem", i |-> 0]
    /\ LET r == add_problem(db, seq,
                   [initialize_new_problem(today, Problem).problem EXCEPT !.title = "title"])
       IN  /\ db' = r.db
           /\ seq' = r.seq
           /\ created' = created \cup {r.lastrowid}
    /\ UNCHANGED <<err, allList, confirm_delete, delete_problem_id>>

\* _get_selected_problem returns a Problem, not None
HasSelection(cursor_row) ==
    allList # <<>> /\ cursor_row >= 0 /\ cursor_row < Len(allList)

\* _get_selected_problem: the Problem of the cursor row
SelectedProblem(cursor_row) == allList[cursor_row + 1]

\* mutant: the first press deletes
action_delete_selected_at_once(cursor_row) ==
    /\ BrowseTick
    /\ last' = [op |-> "delete_selected", i |-> cursor_row]
    /\ LET selected_problem == SelectedProblem(cursor_row)
       IN  IF ~HasSelection(cursor_row)
           THEN UNCHANGED <<db, allList, confirm_delete, delete_problem_id>>
           ELSE /\ db' = delete_problem(db, selected_problem.id).db
                /\ allList' = get_all_problems(db')
                /\ confirm_delete' = FALSE
                /\ delete_problem_id' = None
    /\ err' = "none"
    /\ UNCHANGED <<seq, created>>

\* AllProblemsScreen.action_delete_selected (key D, or the Delete button)
action_delete_selected(cursor_row) ==
    /\ BrowseTick
    /\ last' = [op |-> "delete_selected", i |-> cursor_row]
    /\ LET selected_problem == SelectedProblem(cursor_row)
       IN  IF ~HasSelection(cursor_row)
           THEN UNCHANGED <<db, allList, confirm_delete, delete_problem_id>>
           ELSE IF ~confirm_delete
           THEN /\ confirm_delete' = TRUE
                /\ delete_problem_id' = selected_problem.id
                /\ UNCHANGED <<db, allList>>
           ELSE IF delete_problem_id = selected_problem.id
           THEN /\ db' = delete_problem(db, selected_problem.id).db
                /\ allList' = get_all_problems(db')
                /\ confirm_delete' = FALSE
                /\ delete_problem_id' = None
           ELSE /\ confirm_delete' = TRUE
                /\ delete_problem_id' = selected_problem.id
                /\ UNCHANGED <<db, allList>>
    /\ err' = "none"
    /\ UNCHANGED <<seq, created>>

\* delete_problem raises in the second press: the error is reported and the
\* confirmation stays as it is
action_delete_selected_fails(cursor_row) ==
    /\ BrowseTick
    /\ last' = [op |-> "delete_selected_fails", i |-> cursor_row]
    /\ HasSelection(cursor_row)
    /\ confirm_delete
    /\ delete_problem_id = SelectedProblem(cursor_row).id
    /\ err' = "sqlite3.Error"
    /\ UNCHANGED <<db, seq, created, allList, confirm_delete, delete_problem_id>>

\* the rows the cursor can be on, and no row
CursorRows == (-1) .. Len(allList)

NextBrowse ==
    \/ BrowseRefresh
    \/ BrowseAddProblem
    \/ \E cursor_row \in CursorRows : action_delete_selected(cursor_row)
    \/ \E cursor_row \in CursorRows : action_delete_selected_fails(cursor_row)

SpecBrowse == InitBrowse /\ [][NextBrowse]_vars

(***************************************************************************)
(* SpecGui: the loop of DSARecallGUI.run on the main dashboard and the     *)
(* problem card window.  card is the Problem that the window was given.    *)
(***************************************************************************)
OnCard == [src |-> "card", idx |-> 0]

InitGui ==
    /\ today = Today0
    /\ problems = <<>>
    /\ err = "none"
    /\ ret = 0
    /\ last = [op |-> "none", i |-> 0]
    /\ steps = 0
    /\ db = StoreBefore.db
    /\ ledger = StoreBefore.ledger
    /\ seq = StoreBefore.seq
    /\ created = 1 .. StoreBefore.seq
    /\ proc = "gui"
    /\ startDay = Today0
    /\ dueList = <<>>
    /\ allList = <<>>
    /\ card = Problem
    /\ cur = NoRef
    /\ wf = NoWorkflow
    /\ confirm_delete = FALSE
    /\ delete_problem_id = None

GuiTick ==
    /\ steps < MaxGuiSteps
    /\ steps' = steps + 1
    /\ UNCHANGED <<problems, ret, seq, created, proc, startDay, dueList, allList, wf,
                   confirm_delete, delete_problem_id>>

\* what show_main_dashboard returns for the choice e<i>, h<i> or v<i>, given
\* the due problems it displayed; "again" when it asks for another choice
show_main_dashboard(due_problems, choice, i) ==
    LET problem_index == i - 1
    IN  IF 0 <= problem_index /\ problem_index < Len(due_problems)
        THEN [name |-> (IF choice = "e" THEN "mark_easy"
                        ELSE IF choice = "h" THEN "mark_hard" ELSE "view_problem"),
              id |-> due_problems[problem_index + 1].id]
        ELSE [name |-> "again", id |-> None]

\* the actions that have a branch in the loop of run
RunBranches == {"exit", "add_problem", "all_problems", "streak_tracker", "view_problem"}

\* one turn of the loop of run for a choice on a due problem: the dashboard
\* is shown, the choice is read, and the action is dispatched
GuiDashboardChoice(choice, i) ==
    /\ GuiTick
    /\ last' = [op |-> "dashboard", choice |-> choice, i |-> i]
    /\ cur = NoRef
    /\ LET action == show_main_dashboard(get_due_problems(db, today), choice, i)
       IN  IF /\ action.name \in RunBranches
              /\ action.name = "view_problem"
              /\ action.id \in DOMAIN db
           THEN /\ card' = get_problem(db, action.id)
                /\ cur' = OnCard
           ELSE UNCHANGED <<card, cur>>
    /\ UNCHANGED <<today, err, db, ledger>>

\* choices t, l, a, c of the problem card: the field of the Problem is set
GuiCardEdit(field) ==
    /\ GuiTick
    /\ last' = [op |-> "card_edit", i |-> 0]
    /\ cur = OnCard
    /\ card' = [card EXCEPT ![field] = "edited"]
    /\ UNCHANGED <<today, err, db, ledger, cur>>

\* choice s: update_problem
GuiCardSave ==
    /\ GuiTick
    /\ last' = [op |-> "card_save", i |-> 0]
    /\ cur = OnCard
    /\ db' = update_problem(db, card)
    /\ UNCHANGED <<today, err, ledger, card, cur>>

\* choices e and h: mark, update_problem, record_daily_review, return True;
\* an exception leaves the window and is reported by run
GuiCardMark(kind) ==
    /\ GuiTick
    /\ last' = [op |-> "card_mark", kind |-> kind]
    /\ cur = OnCard
    /\ LET r == IF kind = "easy" THEN mark_problem_easy(today, card)
                ELSE mark_problem_hard(today, card)
       IN  /\ card' = r.problem
           /\ err' = r.raised
           /\ db' = IF r.raised = "none" THEN update_problem(db, r.problem) ELSE db
           /\ ledger' = IF r.raised = "none" THEN record_daily_review(ledger, today, 1)
                        ELSE ledger
    /\ cur' = NoRef
    /\ UNCHANGED today

\* choice b
GuiCardBack ==
    /\ GuiTick
    /\ last' = [op |-> "card_back", i |-> 0]
    /\ cur = OnCard
    /\ cur' = NoRef
    /\ UNCHANGED <<today, err, db, ledger, card>>

\* d midnights pass
GuiAdvanceDay(d) ==
    /\ GuiTick
    /\ last' = [op |-> "advance_day", i |-> 0]
    /\ today + d <= Today0 + MaxDays
    /\ today' = today + d
    /\ UNCHANGED <<err, db, ledger, card, cur>>

NextGui ==
    \/ \E choice \in {"e", "h", "v"}, i \in 1 .. (NumStored + 2) :
          GuiDashboardChoice(choice, i)
    \/ \E field \in {"title", "link", "approach", "code"} : GuiCardEdit(field)
    \/ GuiCardSave
    \/ \E kind \in {"easy", "hard"} : GuiCardMark(kind)
    \/ GuiCardBack
    \/ \E d \in 1 .. MaxDays : GuiAdvanceDay(d)

SpecGui == InitGui /\ [][NextGui]_vars

(***************************************************************************)
(* Properties of the scheduler operations, checked under Spec.             *)
(***************************************************************************)
Items(p) == history_list(p).items

Entry(t, status) == [date |-> isoformat(t), status |-> status]

LastEntry(p) == Items(p)[Len(Items(p))]

\* the number of consecutive "easy" entries at the end of a history
TrailingEasy(items) ==
    CHOOSE k \in 0 .. Len(items) :
        /\ \A j \in (Len(items) - k + 1) .. Len(items) : items[j].status = "easy"
        /\ k < Len(items) => items[Len(items) - k].status # "easy"

Overdue(p) == p.next_review # None /\ p.next_review < today - 1

\* C1: after any sequence of initialize, mark_easy, mark_hard and auto_decay
\* on any dates, the streak_level of every problem is at least 1.
C1_StreakAtLeastOne == \A i \in Problems : problems[i].streak_level >= 1

\* a problem was marked hard right after an easy review, and is at level 1
C1_Witness ==
    /\ last.op = "mark_hard"
    /\ Len(Items(problems[last.i])) >= 2
    /\ Items(problems[last.i])[Len(Items(problems[last.i])) - 1].status = "easy"
    /\ problems[last.i].streak_level = 1

\* C2: mark_easy at level L on date today sets streak_level to L+1,
\* next_review to today + 2^(L+1), last_marked to today, and appends exactly
\* one history entry {today, "easy"}.
C2_MarkEasy ==
    [][\A i \in Problems : MarkEasy(i) =>
          /\ problems'[i].streak_level = problems[i].streak_level + 1
          /\ problems'[i].next_review = today + 2 ^ (problems[i].streak_level + 1)
          /\ problems'[i].last_marked = today
          /\ Items(problems'[i]) = Append(Items(problems[i]), Entry(today, "easy"))]_vars

\* C3: mark_hard at any level on date today sets streak_level to 1,
\* next_review to today + 1, last_marked to today, and appends exactly one
\* history entry {today, "hard"}.
C3_MarkHard ==
    [][\A i \in Problems : MarkHard(i) =>
          /\ problems'[i].streak_level = 1
          /\ problems'[i].next_review = today + 1
          /\ problems'[i].last_marked = today
          /\ Items(problems'[i]) = Append(Items(problems[i]), Entry(today, "hard"))]_vars

\* a problem at a level above 1 (its previous review was easy) was marked hard
C3_Witness ==
    /\ last.op = "mark_hard"
    /\ err = "none"
    /\ Len(Items(problems[last.i])) >= 3
    /\ Items(problems[last.i])[Len(Items(problems[last.i])) - 1].status = "easy"
    /\ Items(problems[last.i])[Len(Items(problems[last.i])) - 2].status = "easy"
    /\ LastEntry(problems[last.i]) = Entry(today, "hard")

\* C4: auto_decay on date today changes exactly the problems whose
\* next_review is set and strictly earlier than today - 1; every other problem
\* (due yesterday, today, later, or with no next_review) is left unchanged, and
\* the returned count is the number of problems changed.
C4_AutoDecayExactly ==
    [][AutoDecay =>
          /\ \A i \in Problems : (problems'[i] # problems[i]) <=> Overdue(problems[i])
          /\ ret' = Cardinality({i \in Problems : problems'[i] # problems[i]})]_vars

\* auto_decay decayed one problem and left alone one that was due yesterday
C4_Witness ==
    /\ last.op = "auto_decay"
    /\ ret = 1
    /\ \E i \in Problems : problems[i].next_review = today - 1
    /\ \E i \in Problems : /\ Items(problems[i]) # <<>>
                           /\ LastEntry(problems[i]) = Entry(today, "auto-hard")

\* C5: every problem auto_decay decays on date today has afterwards
\* streak_level 1 and next_review today + 1, its history has gained exactly one
\* entry {today, "auto-hard"} at the end, and its last_marked is unchanged.
C5_AutoDecayEffect ==
    [][AutoDecay => \A i \in Problems : Overdue(problems[i]) =>
          /\ problems'[i].streak_level = 1
          /\ problems'[i].next_review = today + 1
          /\ Items(problems'[i]) = Append(Items(problems[i]), Entry(today, "auto-hard"))
          /\ problems'[i].last_marked = problems[i].last_marked]_vars

\* auto_decay decayed a problem that had been reviewed on an earlier day
C5_Witness ==
    /\ last.op = "auto_decay"
    /\ \E i \in Problems :
          /\ Len(Items(problems[i])) >= 2
          /\ LastEntry(problems[i]) = Entry(today, "auto-hard")
          /\ problems[i].last_marked # None
          /\ problems[i].last_marked < today
          /\ problems[i].next_review = today + 1

\* C6: each mark_easy, mark_hard or decaying auto_decay appends exactly one
\* entry at the end of the problem's history and leaves the earlier entries
\* unchanged and in order.
C6_HistoryAppendOnly ==
    [][/\ \A i \in Problems : (MarkEasy(i) \/ MarkHard(i)) =>
             /\ Len(Items(problems'[i])) = Len(Items(problems[i])) + 1
             /\ SubSeq(Items(problems'[i]), 1, Len(Items(problems[i]))) = Items(problems[i])
       /\ AutoDecay => \A i \in Problems :
             /\ Overdue(problems[i]) =>
                   Len(Items(problems'[i])) = Len(Items(problems[i])) + 1
             /\ SubSeq(Items(problems'[i]), 1, Len(Items(problems[i]))) = Items(problems[i])]_vars

\* C7: streak_level is 1 plus the number of consecutive "easy" entries at the
\* end of the history.
C7_StreakIsEasyRun ==
    \A i \in Problems :
        problems[i].streak_level = 1 + TrailingEasy(Items(problems[i]))

\* C10: mark_easy, mark_hard, initialize and auto_decay never raise.
C10_NeverRaises == err = "none"

(***************************************************************************)
(* Properties of the review workflows, checked under SpecApp.              *)
(***************************************************************************)
\* C8: in a mark-outcome workflow of either UI the Problem is mutated before
\* it is persisted and persisted before the ledger is incremented: whenever
\* the ledger changes, the problem under review already carries the outcome
\* and its stored row already equals it, and whenever a workflow writes the
\* store, the problem it writes already carries the outcome; a workflow that
\* stops earlier leaves the ledger as it was.
C8_MutatePersistRecord ==
    [][/\ ledger' # ledger =>
             /\ wf.pc = "persist"
             /\ Items(CurProblem) # <<>>
             /\ LastEntry(CurProblem).status = wf.kind
             /\ CurProblem.id \in DOMAIN db => db[CurProblem.id] = row_of(CurProblem)
       /\ (db' # db /\ proc # "down") =>
             /\ wf.pc = "mutate"
             /\ Items(CurProblem) # <<>>
             /\ LastEntry(CurProblem).status = wf.kind
             /\ ledger' = ledger]_vars

\* a workflow of the TUI ran to its end: the review of today is stored and
\* counted
C8_Witness ==
    /\ proc = "tui"
    /\ last.op = "record"
    /\ isoformat(today) \in DOMAIN ledger
    /\ ledger[isoformat(today)] = 1
    /\ \E i \in DOMAIN db :
          /\ Items(db[i]) # <<>>
          /\ LastEntry(db[i]).date = isoformat(today)
          /\ LastEntry(db[i]).status \in {"easy", "hard"}

\* C9 as stated: no problem is marked easy or hard while it is overdue by more
\* than one day (next_review < today - 1).
C9_NeverReviewsRotted ==
    [][\A kind \in {"easy", "hard"} : WfMutate(kind) => ~Overdue(CurProblem)]_vars

\* C9 as amended: on the day the process was started no problem is marked
\* easy or hard while it is overdue by more than one day, and right after the
\* start no stored problem is overdue by more than one day.
C9_NoRottedReviewOnStartDay ==
    [][/\ \A kind \in {"easy", "hard"} :
             (WfMutate(kind) /\ today = startDay) => ~Overdue(CurProblem)
       /\ \A ui \in {"tui", "gui"} : (Start(ui) /\ proc' = ui) =>
             \A i \in DOMAIN db' : ~Overdue(problem_from_row(db'[i]))]_vars

\* a problem that the start of today decayed was then reviewed today
C9_Witness ==
    /\ proc # "down"
    /\ today = startDay
    /\ \E i \in DOMAIN db :
          /\ Len(Items(db[i])) >= 2
          /\ Items(db[i])[Len(Items(db[i])) - 1] = Entry(today, "auto-hard")
          /\ LastEntry(db[i]).date = isoformat(today)
          /\ LastEntry(db[i]).status \in {"easy", "hard"}

(***************************************************************************)
(* Properties of the store operations, checked under SpecStore.            *)
(***************************************************************************)
\* the ids of the problems of a list
IdsOf(list) == {list[k].id : k \in DOMAIN list}

\* the problems of a list are stored, as they are stored, each one once
StoredOnce(list) ==
    /\ \A k \in DOMAIN list : list[k].id \in DOMAIN db
                                /\ list[k] = problem_from_row(db[list[k].id])
    /\ Cardinality(IdsOf(list)) = Len(list)

\* the date of the next review of a stored problem, None when it has none
NextReviewOf(i) ==
    IF db[i].next_review = NULL THEN None ELSE strptime(db[i].next_review)

\* C11: get_due_problems(as_of) returns exactly the stored problems whose
\* next_review is set and on or before as_of, ordered by next_review
\* ascending.
C11_ListDue ==
    [][\A as_of \in (today - MaxBack) .. (today + MaxBack) :
          GetDueProblems(as_of) =>
             /\ StoredOnce(ret'.problems)
             /\ IdsOf(ret'.problems) = {i \in DOMAIN db :
                                 NextReviewOf(i) # None /\ NextReviewOf(i) <= as_of}
             /\ \A j, k \in DOMAIN ret'.problems :
                   j < k => ret'.problems[j].next_review
                               <= ret'.problems[k].next_review]_vars

\* a query returned a problem due exactly on as_of after one with a larger
\* id, while a problem due on as_of + 1 and one with no next_review are stored
C11_Witness ==
    /\ last.op = "get_due_problems"
    /\ \E j, k \in DOMAIN ret.problems :
          /\ j < k
          /\ ret.problems[j].id > ret.problems[k].id
          /\ ret.problems[k].next_review = last.i
    /\ \E i \in DOMAIN db : NextReviewOf(i) = last.i + 1
    /\ \E i \in DOMAIN db : NextReviewOf(i) = None

\* C12: get_overdue_problems returns exactly the stored problems whose
\* next_review is set and strictly before today, so that the overdue problems
\* are among the due problems of today.
C12_ListOverdue ==
    [][GetOverdueProblems =>
          /\ StoredOnce(ret'.problems)
          /\ IdsOf(ret'.problems) = {i \in DOMAIN db :
                                        NextReviewOf(i) # None /\ NextReviewOf(i) < today}
          /\ IdsOf(ret'.problems) \subseteq IdsOf(get_due_problems(db, today))]_vars

\* the query returned a problem due yesterday and left out one due today
C12_Witness ==
    /\ last.op = "get_overdue_problems"
    /\ \E k \in DOMAIN ret.problems : ret.problems[k].next_review = today - 1
    /\ \E i \in DOMAIN db : NextReviewOf(i) = today /\ i \notin IdsOf(ret.problems)

\* problems_reviewed of a date, 0 when the ledger has no entry for it
Reviewed(l, d) == IF isoformat(d) \in DOMAIN l THEN l[isoformat(d)] ELSE 0

\* C13: record_daily_review(date, count) sets problems_reviewed of the date
\* to its previous value (0 without an entry) plus count, leaves one entry for
\* the date, and leaves the entry of every other date as it was.
C13_RecordAdditive ==
    [][\A review_date \in (today - MaxBack) .. today, count \in Counts :
          RecordDailyReview(review_date, count) =>
             /\ DOMAIN ledger' = DOMAIN ledger \cup {isoformat(review_date)}
             /\ ledger'[isoformat(review_date)] = Reviewed(ledger, review_date) + count
             /\ \A d \in (Today0 - MaxBack) .. (Today0 + MaxDays) :
                   d # review_date => Reviewed(ledger', d) = Reviewed(ledger, d)
             /\ \A k \in DOMAIN ledger \ {isoformat(review_date)} :
                   ledger'[k] = ledger[k]]_vars

\* two calls for the same date, with counts 1 and 2, left 3 for that date
\* beside the entry of another date
C13_Witness ==
    /\ last.op = "record_daily_review"
    /\ steps = 2
    /\ Reviewed(ledger, last.i) = 3
    /\ Cardinality(DOMAIN ledger) = 2
    /\ \E d \in (today - MaxBack) .. today : d # last.i /\ Reviewed(ledger, d) = 1

\* C14: for every date problems_reviewed is non-negative and never decreases,
\* and no ledger entry is ever removed, whatever operation is called.
C14_LedgerMonotone ==
    [][/\ DOMAIN ledger \subseteq DOMAIN ledger'
       /\ \A k \in DOMAIN ledger : ledger'[k] >= ledger[k]
       /\ \A k \in DOMAIN ledger' : ledger'[k] >= 0]_vars

\* the number of consecutive days, from day t backwards, with
\* problems_reviewed > 0
ActiveRun(l, t) ==
    CHOOSE n \in 0 .. (MaxBack + MaxDays + 1) :
        /\ \A k \in 0 .. (n - 1) : Reviewed(l, t - k) > 0
        /\ Reviewed(l, t - n) <= 0

\* C15: get_current_streak returns the largest N such that each of the N
\* days today, today - 1, ..., today - (N - 1) has problems_reviewed > 0 (0
\* when the entry of today is absent or zero), and it is at least 1 right
\* after a review was recorded for today.
C15_CurrentStreak ==
    [][/\ GetCurrentStreak =>
             /\ ret'.streak = ActiveRun(ledger, today)
             /\ Reviewed(ledger, today) = 0 => ret'.streak = 0
       /\ \A count \in 1 .. MaxCount :
             RecordDailyReview(today, count) => get_current_streak(ledger', today) >= 1]_vars

\* C15, the value alone: get_current_streak returns the length of the run of
\* active days that ends today.
C15_StreakValue ==
    [][GetCurrentStreak =>
          /\ ret'.streak = ActiveRun(ledger, today)
          /\ Reviewed(ledger, today) = 0 => ret'.streak = 0]_vars

\* a run of two active days was counted behind an inactive day before it,
\* or a zero was returned although yesterday was active
C15_StreakValue_Witness ==
    /\ last.op = "get_current_streak"
    /\ \/ ret.streak = 2 /\ Reviewed(ledger, today) > 0 /\ Reviewed(ledger, today - 1) > 0
       \/ ret.streak = 0 /\ Reviewed(ledger, today - 1) > 0

\* C16: add_problem gives the new problem an id that no stored problem has
\* and that no problem added earlier had, also when that one has been
\* deleted; no operation changes the id of a stored problem.
C16_FreshIds ==
    [][/\ \A problem \in NewProblems(today) : AddProblem(problem) =>
             /\ ret'.lastrowid \notin DOMAIN db
             /\ ret'.lastrowid \notin created
             /\ DOMAIN db' = DOMAIN db \cup {ret'.lastrowid}
       /\ \A i \in DOMAIN db' : db'[i].id = i
       /\ \A i \in DOMAIN db \cap DOMAIN db' : db'[i].id = db[i].id]_vars

\* a problem was added after the problem with the largest id had been
\* deleted, and after a stored problem had been updated
C16_Witness ==
    /\ last.op = "add_problem"
    /\ ret.lastrowid - 1 \in created \ DOMAIN db
    /\ \E i \in DOMAIN db : db[i].title = "edited"
    /\ steps = 2

\* C17: update_problem(problem) makes the stored record with the id of the
\* problem equal to the problem in title, link, approach, code, streak_level,
\* next_review, last_marked and history and changes no other record; when no
\* record has the id the store is left as it was.
C17_Update ==
    [][last'.op = "update_problem" =>
          \A problem \in Changed(HeldProblem(last'.i)) :
             UpdateProblem(problem) =>
                /\ DOMAIN db' = DOMAIN db
                /\ problem.id \in DOMAIN db => get_problem(db', problem.id) = problem
                /\ \A i \in DOMAIN db : i # problem.id => db'[i] = db[i]
                /\ ledger' = ledger]_vars

\* an update for an id that is not stored came after an update that stored an
\* easy review
C17_Witness ==
    /\ last.op = "update_problem"
    /\ last.i \notin DOMAIN db
    /\ last.i # None
    /\ \E i \in DOMAIN db : /\ db[i].streak_level = 2
                             /\ db[i].last_marked = isoformat(today)
                             /\ Items(db[i]) # <<>>
                             /\ LastEntry(db[i]) = Entry(today, "easy")

\* C18: delete_problem(id) returns True exactly when a problem with the id
\* was stored; afterwards get_problem(id) finds nothing and no list query
\* returns the id; every other problem and the ledger (hence the current
\* streak) are as before, and deleting an id that is not stored changes
\* nothing.
C18_Delete ==
    [][\A problem_id \in CallerIds : DeleteProblem(problem_id) =>
          /\ ret'.deleted = (problem_id \in DOMAIN db)
          /\ get_problem(db', problem_id) = None
          /\ problem_id \notin IdsOf(get_all_problems(db'))
          /\ problem_id \notin IdsOf(get_overdue_problems(db', today))
          /\ \A as_of \in (today - MaxBack) .. (today + MaxBack) :
                problem_id \notin IdsOf(get_due_problems(db', as_of))
          /\ DOMAIN db' = DOMAIN db \ {problem_id}
          /\ \A i \in DOMAIN db' : db'[i] = db[i]
          /\ ledger' = ledger
          /\ get_current_streak(ledger', today) = get_current_streak(ledger, today)
          /\ problem_id \notin DOMAIN db => db' = db]_vars

\* a stored problem was deleted while other problems are stored and the
\* ledger counts reviews for today and yesterday
C18_Witness ==
    /\ last.op = "delete_problem"
    /\ ret.deleted = TRUE
    /\ last.i \in created \ DOMAIN db
    /\ DOMAIN db # {}
    /\ get_current_streak(ledger, today) >= 2

\* C19: after add_problem(p) returned id, get_problem(id) returns a problem
\* equal to p in title, link, approach, code, streak_level, next_review,
\* last_marked and history, and get_all_problems contains it;
\* get_all_problems returns every stored problem once, by ascending id.
C19_CreateGetListAll ==
    [][/\ \A problem \in NewProblems(today) : AddProblem(problem) =>
             LET stored == [problem EXCEPT !.id = ret'.lastrowid]
                 all == get_all_problems(db')
             IN  /\ get_problem(db', ret'.lastrowid) = stored
                 /\ \E k \in DOMAIN all : all[k] = stored
       /\ GetAllProblems =>
             /\ StoredOnce(ret'.problems)
             /\ IdsOf(ret'.problems) = DOMAIN db
             /\ \A j, k \in DOMAIN ret'.problems :
                   j < k => ret'.problems[j].id < ret'.problems[k].id]_vars

\* a problem with every field filled in was added to a store from which a
\* problem had been deleted, and get_all_problems returned it last, with the
\* dates and the history it had
C19_Witness ==
    /\ last.op = "get_all_problems"
    /\ Len(ret.problems) >= 2
    /\ Len(ret.problems) < Cardinality(created)
    /\ LET p == ret.problems[Len(ret.problems)]
       IN  /\ p.id = seq
           /\ p.code = "code"
           /\ p.streak_level = 2
           /\ p.next_review = p.last_marked + 4
           /\ Items(p) = <<Entry(p.last_marked, "easy")>>

(***************************************************************************)
(* Properties of the history text, checked under SpecHistory.              *)
(***************************************************************************)
\* the text is a JSON array of n objects
IsArrayOf(text, n) ==
    /\ Len(text) = (IF n = 0 THEN 2 ELSE 2 * n + 1)
    /\ \A k \in 1 .. n : text[2 * k].kind = "obj"
    /\ text = json_dumps([k \in 1 .. n |-> EntryOf(text[2 * k])])

\* the text is not a JSON document: not an array of objects, not one
\* object, not null
Malformed(text) ==
    /\ \A n \in 0 .. Len(text) : ~IsArrayOf(text, n)
    /\ ~(Len(text) = 1 /\ text[1].kind \in {"obj", "null"})

\* C20: a history list that is serialized by the setter is read back equal
\* by the getter; a malformed history text is read as the empty list, without
\* an exception, and add_history_entry on a Problem with such a text raises
\* nothing and leaves the new entry as the history.
C20_HistoryRoundTrip ==
    [][/\ (last'.op = "set_history_list" /\ SetHistoryList(last'.value)) =>
             history_list(problems'[1]) = [type |-> "list", items |-> last'.value]
       /\ (/\ last'.op = "load_damaged"
           /\ LoadDamaged(last'.text)
           /\ Malformed(last'.text)) =>
             history_list(problems'[1]) = [type |-> "list", items |-> <<>>]
       /\ \A status \in {"easy", "hard", "auto-hard"} :
             (AddHistoryEntry(status) /\ Malformed(problems[1].history)) =>
                /\ err' = "none"
                /\ history_list(problems'[1]) =
                      [type |-> "list", items |-> <<Entry(today, status)>>]]_vars

\* an outcome was recorded on a history of two entries that had lost its
\* closing bracket
C20_Witness ==
    /\ last.op = "add_history_entry"
    /\ last.i = 4
    /\ steps = 3
    /\ err = "none"
    /\ Len(Items(problems[1])) = 1

(***************************************************************************)
(* Properties of initialize_new_problem and of the add-problem workflows,  *)
(* checked under SpecAdd.                                                  *)
(***************************************************************************)
\* the Problem is as initialize leaves it on day t, with the texts of p
InitializedFrom(q, p, t) ==
    /\ q.streak_level = 1
    /\ q.next_review = t + 1
    /\ q.last_marked = None
    /\ Items(q) = <<>> /\ history_list(q).type = "list"
    /\ q.title = p.title /\ q.link = p.link
    /\ q.approach = p.approach /\ q.code = p.code

\* C21: initialize_new_problem on day today sets streak_level 1, next_review
\* today + 1, last_marked None and the history [] whatever these fields were,
\* and leaves title, link, approach and code as they were; the record that an
\* add-problem workflow stores is the Problem of the form initialized in this
\* way on the day of the save.
C21_Initialize ==
    [][/\ \A i \in Problems : Initialize(i) =>
             /\ err' = "none"
             /\ InitializedFrom(problems'[i], problems[i], today)
       /\ (last'.op = "add_save" /\ AddSave(last'.title, last'.link)
              /\ last'.title # "") =>
             /\ DOMAIN db' = DOMAIN db \cup {seq'}
             /\ seq' \notin DOMAIN db
             /\ InitializedFrom(get_problem(db', seq'),
                                [card EXCEPT !.title = last'.title,
                                             !.link = last'.link], today)]_vars

\* the TUI stored a problem on the day after a save of the same form had
\* failed and left the form initialized for that day; and a Problem that had
\* been reviewed was initialized again
C21_Witness ==
    /\ last.op = "add_save"
    /\ proc = "tui"
    /\ last.was = today
    /\ seq \in DOMAIN db /\ seq > NumStored
    /\ db[seq].title = "title"
    /\ db[seq].next_review = isoformat(today + 1)
    /\ \E i \in Problems : problems[i].streak_level = 1 /\ problems[i].code = "code"

(***************************************************************************)
(* Properties of the ledger queries, checked under SpecLedger.             *)
(***************************************************************************)
\* the dates of the window of days days that have an entry
WindowDates(days) ==
    {d \in (Today0 - MaxBack - 2) .. (Today0 + 1) :
        /\ today - days + 1 <= d /\ d <= today
        /\ isoformat(d) \in DOMAIN ledger}

\* C22: get_streak_data(days) returns exactly the entries of the ledger with
\* today - days + 1 <= date <= today, each with its problems_reviewed, by
\* date descending; they are at most days, and a date without an entry is
\* not in the result.
C22_Activity ==
    [][\A days \in Windows : GetStreakData(days) =>
          /\ {strptime(ret'.rows[k].date) : k \in DOMAIN ret'.rows} = WindowDates(days)
          /\ Len(ret'.rows) = Cardinality(WindowDates(days))
          /\ Len(ret'.rows) <= days
          /\ \A k \in DOMAIN ret'.rows :
                /\ ret'.rows[k].date \in DOMAIN ledger
                /\ ret'.rows[k].problems_reviewed = ledger[ret'.rows[k].date]
          /\ \A j, k \in DOMAIN ret'.rows :
                j < k => strptime(ret'.rows[j].date) > strptime(ret'.rows[k].date)]_vars

\* a window of two days returned the entries of today and yesterday, today
\* first, while the ledger has entries for tomorrow and for two days ago
C22_Witness ==
    /\ last.op = "get_streak_data"
    /\ last.i = 2
    /\ Len(ret.rows) = 2
    /\ ret.rows[1].date = isoformat(today)
    /\ ret.rows[2].date = isoformat(today - 1)
    /\ isoformat(today + 1) \in DOMAIN ledger
    /\ isoformat(today - 2) \in DOMAIN ledger

\* the first date, from today backwards, whose entry is missing or zero
FirstGap ==
    CHOOSE d \in (Today0 - MaxBack - 1) .. today :
        /\ Reviewed(ledger, d) = 0
        /\ \A e \in (d + 1) .. today : Reviewed(ledger, e) # 0

Pending(problem_id) == confirm_delete /\ delete_problem_id = problem_id

C23_DashboardMarks ==
    [][(/\ last'.op = "dashboard"
        /\ last'.choice \in {"e", "h"}
        /\ GuiDashboardChoice(last'.choice, last'.i)
        /\ last'.i \in DOMAIN get_due_problems(db, today)) =>
          LET problem == get_due_problems(db, today)[last'.i]
              r == IF last'.choice = "e" THEN mark_problem_easy(today, problem)
                   ELSE mark_problem_hard(today, problem)
          IN  /\ get_problem(db', problem.id) = r.problem
              /\ Reviewed(ledger', today) = Reviewed(ledger, today) + 1]_vars

\* the persisted texts of the problem with this id
TextsOf(d, problem_id) ==
    <<d[problem_id].title, d[problem_id].link, d[problem_id].approach,
      d[problem_id].code>>

\* C28: a mark-easy or mark-hard workflow leaves the persisted title, link,
\* approach and code of the problem as they were, also when the problem card
\* holds edits of these fields that were not saved.
C28_MarkKeepsTexts ==
    [][\A kind \in {"easy", "hard"} :
          (GuiCardMark(kind) /\ card.id \in DOMAIN db) =>
             TextsOf(db', card.id) = TextsOf(db, card.id)]_vars

\* C28, without edits pending: the workflow of a problem card without
\* unsaved edits changes only streak_level, next_review, last_marked and
\* history of the row.
C28_MarkKeepsSavedTexts ==
    [][\A kind \in {"easy", "hard"} :
          (/\ GuiCardMark(kind)
           /\ card.id \in DOMAIN db
           /\ TextsOf(db, card.id) = <<card.title, card.link, card.approach, card.code>>) =>
             /\ TextsOf(db', card.id) = TextsOf(db, card.id)
             /\ \A i \in DOMAIN db : i # card.id => db'[i] = db[i]]_vars

(***************************************************************************)
(* Further properties of the scheduler and of the workflows.               *)
(***************************************************************************)
\* the stored problem is neither due nor overdue as of day d
NotDue(d, problem_id, t) ==
    /\ problem_id \notin IdsOf(get_due_problems(d, t))
    /\ problem_id \notin IdsOf(get_overdue_problems(d, t))

\* C25: a mark-easy or mark-hard on day today leaves the problem with a
\* next_review later than today, and the startup auto-decay leaves every
\* problem it decays so; once the problem is persisted it is neither due nor
\* overdue as of the day of the outcome; a next_review that is set is never
\* unset, in memory or in the store.
C25_NotDueAfterOutcome ==
    [][/\ \A kind \in {"easy", "hard"} : WfMutate(kind) =>
             /\ CurProblem'.next_review # None
             /\ CurProblem'.next_review >= today + 1
       /\ (WfPersist /\ CurProblem.id \in DOMAIN db) =>
             /\ get_problem(db', CurProblem.id).next_review = CurProblem.next_review
             /\ NotDue(db', CurProblem.id, strptime(LastEntry(CurProblem).date))
       /\ \A ui \in {"tui", "gui"} : Start(ui) =>
             \A i \in DOMAIN db : db'[i] # db[i] =>
                /\ db'[i].next_review = isoformat(today + 1)
                /\ NotDue(db', i, today)
       /\ \A i \in DOMAIN db \cap DOMAIN db' :
             db[i].next_review # NULL => db'[i].next_review # NULL
       /\ (cur # NoRef /\ cur' = cur /\ CurProblem.next_review # None) =>
             CurProblem'.next_review # None]_vars

\* C25 for the Problem objects in memory: after mark_easy, mark_hard and
\* auto_decay a next_review is set and later than today for every problem
\* that the operation changed, and no operation unsets a next_review.
C25_NextReviewLater ==
    [][/\ \A i \in Problems : (MarkEasy(i) \/ MarkHard(i)) =>
             /\ problems'[i].next_review # None
             /\ problems'[i].next_review >= today + 1
       /\ AutoDecay => \A i \in Problems : problems'[i] # problems[i] =>
             problems'[i].next_review = today + 1
       /\ \A i \in Problems : problems[i].next_review # None =>
             problems'[i].next_review # None]_vars

\* a problem that the start of today had decayed, and that was therefore due
\* again, was marked hard and persisted: it is due tomorrow
C25_Witness ==
    /\ last.op = "persist"
    /\ wf.kind = "hard"
    /\ today = startDay
    /\ CurProblem.id \in DOMAIN db
    /\ db[CurProblem.id].next_review = isoformat(today + 1)
    /\ Len(Items(CurProblem)) >= 2
    /\ Items(CurProblem)[Len(Items(CurProblem)) - 1] = Entry(today, "auto-hard")
    /\ LastEntry(CurProblem) = Entry(today, "hard")

\* the positions of the "easy" and "hard" entries of a history
Outcomes(items) == {k \in DOMAIN items : items[k].status \in {"easy", "hard"}}

\* the last "easy" or "hard" entry of a history that has one
LastOutcome(items) ==
    items[CHOOSE k \in Outcomes(items) : \A j \in Outcomes(items) : j <= k]

\* C26: in every state that initialize, mark_easy, mark_hard and auto_decay
\* reach, last_marked is None exactly when the history has no "easy" or
\* "hard" entry, and otherwise it is the date of the last such entry.
C26_LastMarked ==
    \A i \in Problems :
        /\ (problems[i].last_marked = None) <=> (Outcomes(Items(problems[i])) = {})
        /\ Outcomes(Items(problems[i])) # {} =>
              LastOutcome(Items(problems[i])).date = isoformat(problems[i].last_marked)

\* a problem that was marked hard on an earlier day has been decayed today,
\* and another one has an "auto-hard" entry and no outcome
C26_Witness ==
    /\ last.op = "auto_decay"
    /\ \E i \in Problems :
          /\ Outcomes(Items(problems[i])) # {}
          /\ LastEntry(problems[i]) = Entry(today, "auto-hard")
          /\ problems[i].last_marked # None
          /\ problems[i].last_marked < today
          /\ LastOutcome(Items(problems[i])).status = "hard"
    /\ \E i \in Problems :
          /\ Items(problems[i]) # <<>>
          /\ Outcomes(Items(problems[i])) = {}

\* C27: the startup auto-decay leaves the ledger as it was: the entries, the
\* problems_reviewed of every date and the current streak are the same after
\* the start as before it, however many problems were decayed.
C27_StartKeepsLedger ==
    [][\A ui \in {"tui", "gui"} : Start(ui) =>
          /\ ledger' = ledger
          /\ \A d \in (Today0 - MaxBack) .. (Today0 + MaxDays) :
                Reviewed(ledger', d) = Reviewed(ledger, d)
          /\ get_current_streak(ledger', today) = get_current_streak(ledger, today)]_vars

\* a start decayed a problem on a day for which a review is recorded: the
\* count of the day is still 1 and the current streak is still 1
C27_Witness ==
    /\ last.op = "start"
    /\ proc # "down"
    /\ Reviewed(ledger, today) = 1
    /\ get_current_streak(ledger, today) = 1
    /\ \E i \in DOMAIN db : /\ Items(db[i]) # <<>>
                             /\ LastEntry(db[i]) = Entry(today, "auto-hard")

\* the scheduling fields of a Problem
SchedulingOf(p) == <<p.streak_level, p.next_review, p.last_marked, p.history>>

\* C29: when update_problem raises in a mark-easy workflow of the review
\* screen, the ledger is not incremented and the Problem of the screen has the
\* streak_level, next_review, last_marked and history of its stored row, so
\* that a second mark-easy starts from the persisted level.
C29_PersistFailureRestores ==
    [][(WfStoreFails /\ proc = "tui" /\ wf.pc = "mutate" /\ wf.kind = "easy"
          /\ CurProblem.id \in DOMAIN db) =>
          /\ ledger' = ledger
          /\ SchedulingOf(CurProblem') = SchedulingOf(get_problem(db', CurProblem.id))]_vars

\* C29, the part the handler does keep: the failed update_problem leaves the
\* stored row and the ledger as they were
C29_PersistFailureKeepsStore ==
    [][(WfStoreFails /\ wf.pc = "mutate") => (ledger' = ledger /\ db' = db)]_vars

====
